---- MODULE Spec2Model ----
(***************************************************************************)
(* Model of app.py: the memoized location resolver get_location_data, the  *)
(* LLM gateway call_llm, the request handler generate_chart and its        *)
(* section-parsing loop.                                                   *)
(*                                                                         *)
(* Strings the code manipulates (city names, addresses) are tuples of      *)
(* one-character strings; the lines of an LLM answer are tuples of tokens. *)
(* Latitudes and longitudes are the source's literals scaled by 10^4.      *)
(***************************************************************************)
EXTENDS Integers, Sequences, FiniteSets, TLC

VARIABLES
    cache,          \* lru_cache of get_location_data: entries, least recently used first
    calls,          \* history: the arguments of the sequential get_location_data calls
    loc,            \* the last sequential get_location_data call: argument, outcome, result
    llmAvailable,   \* LLM_AVAILABLE and groq_client, fixed at import time
    req,            \* the last POST /api/chart request and what its environment did
    resp,           \* the response to that request
    thr,            \* concurrent callers of get_location_data: position and result
    geoCount,       \* concurrent run: geocoder invocations per city name
    scan            \* the section-parsing loop: cursor, results, line just scanned

vars == <<cache, calls, loc, llmAvailable, req, resp, thr, geoCount, scan>>

(***************************************************************************)
(* Bounds of the model.                                                    *)
(***************************************************************************)
NumFillers == 99     \* distinct unknown cities already looked up when the run starts
MaxCalls == 3        \* sequential get_location_data calls in one run
MaxRequests == 2     \* POST /api/chart requests in one run
NumThreads == 2      \* concurrent callers of get_location_data
MaxLines == 3        \* lines of one LLM answer in the scanning loop

(***************************************************************************)
(* str.lower, str.strip, str.title, str.split(",")[0] on character tuples. *)
(***************************************************************************)
Lowers == <<"a","b","c","d","e","f","g","h","i","j","k","l","m",
            "n","o","p","q","r","s","t","u","v","w","x","y","z">>
Uppers == <<"A","B","C","D","E","F","G","H","I","J","K","L","M",
            "N","O","P","Q","R","S","T","U","V","W","X","Y","Z">>

IsUpper(c) == \E i \in 1..26 : Uppers[i] = c
IsLower(c) == \E i \in 1..26 : Lowers[i] = c
IsCased(c) == IsUpper(c) \/ IsLower(c)
IsSpace(c) == c = " "

LowerCh(c) == IF IsUpper(c) THEN Lowers[CHOOSE i \in 1..26 : Uppers[i] = c] ELSE c
UpperCh(c) == IF IsLower(c) THEN Uppers[CHOOSE i \in 1..26 : Lowers[i] = c] ELSE c

Lower(s) == [i \in 1..Len(s) |-> LowerCh(s[i])]

RECURSIVE LStrip(_)
LStrip(s) == IF s # <<>> /\ IsSpace(Head(s)) THEN LStrip(Tail(s)) ELSE s

RECURSIVE RStrip(_)
RStrip(s) ==
    IF s # <<>> /\ IsSpace(s[Len(s)]) THEN RStrip(SubSeq(s, 1, Len(s) - 1)) ELSE s

Strip(s) == RStrip(LStrip(s))

Title(s) ==
    [i \in 1..Len(s) |->
        IF i > 1 /\ IsCased(s[i - 1]) THEN LowerCh(s[i]) ELSE UpperCh(s[i])]

RECURSIVE FirstSegment(_)
FirstSegment(s) ==
    IF s = <<>> \/ Head(s) = "," THEN <<>> ELSE <<Head(s)>> \o FirstSegment(Tail(s))

(***************************************************************************)
(* get_location_data: the function body.                                   *)
(***************************************************************************)
FallbackKeys ==
    { <<"d","e","l","h","i">>,
      <<"m","u","m","b","a","i">>,
      <<"b","a","n","g","a","l","o","r","e">>,
      <<"n","e","w"," ","y","o","r","k">>,
      <<"l","o","n","d","o","n">> }

FALLBACK_CITIES(k) ==
    CASE k = <<"d","e","l","h","i">> ->
            [lat |-> 286139, lng |-> 772090, tz |-> "Asia/Kolkata"]
      [] k = <<"m","u","m","b","a","i">> ->
            [lat |-> 190760, lng |-> 728777, tz |-> "Asia/Kolkata"]
      [] k = <<"b","a","n","g","a","l","o","r","e">> ->
            [lat |-> 129716, lng |-> 775946, tz |-> "Asia/Kolkata"]
      [] k = <<"n","e","w"," ","y","o","r","k">> ->
            [lat |-> 407128, lng |-> -740060, tz |-> "America/New_York"]
      [] k = <<"l","o","n","d","o","n">> ->
            [lat |-> 515074, lng |-> -1278, tz |-> "Europe/London"]

DefaultLocation ==
    [lat |-> 407128, lng |-> -740060, tz |-> "America/New_York",
     city |-> <<"N","e","w"," ","Y","o","r","k">>]

NoRecord == [lat |-> 0, lng |-> 0, tz |-> "", city |-> <<>>]

\* What the geocoding provider can do with one geocode() call.
ParisLocation ==
    [kind |-> "found", latitude |-> 488566, longitude |-> 23522,
     address |-> <<"P","a","r","i","s",","," ","F","r">>]
GeoNotCalled == [kind |-> "notcalled", latitude |-> 0, longitude |-> 0, address |-> <<>>]
GeoOutcomes ==
    { [kind |-> "raise", latitude |-> 0, longitude |-> 0, address |-> <<>>],
      [kind |-> "none", latitude |-> 0, longitude |-> 0, address |-> <<>>],
      [kind |-> "noaddress", latitude |-> 488566, longitude |-> 23522, address |-> <<>>],
      ParisLocation }

\* What the timezone provider can do with one timezone_at() call.
TzNotCalled == [kind |-> "notcalled", name |-> ""]
TzOutcomes ==
    { [kind |-> "raise", name |-> ""],
      [kind |-> "none", name |-> ""],
      [kind |-> "found", name |-> "Europe/Paris"] }

clean_name(city_name) == Strip(Lower(city_name))

\* Lines 60-71: the try block.  exc tells whether an exception left the block.
GeoTry(city_name, geo, tz) ==
    IF geo.kind = "raise"
    THEN [exc |-> TRUE, returned |-> FALSE, ret |-> NoRecord, geoCalls |-> 1, tzCalls |-> 0,
          geo |-> "raise", tzo |-> "notcalled"]
    ELSE IF geo.kind = "none"
    THEN [exc |-> FALSE, returned |-> FALSE, ret |-> NoRecord, geoCalls |-> 1, tzCalls |-> 0,
          geo |-> "none", tzo |-> "notcalled"]
    ELSE IF tz.kind = "raise"
    THEN [exc |-> TRUE, returned |-> FALSE, ret |-> NoRecord, geoCalls |-> 1, tzCalls |-> 1,
          geo |-> "found", tzo |-> "raise"]
    ELSE IF geo.kind = "noaddress"
    THEN [exc |-> TRUE, returned |-> FALSE, ret |-> NoRecord, geoCalls |-> 1, tzCalls |-> 1,
          geo |-> "noaddress", tzo |-> tz.kind]
    ELSE [exc |-> FALSE, returned |-> TRUE,
          ret |-> [lat |-> geo.latitude, lng |-> geo.longitude,
                   tz |-> IF tz.kind = "none" THEN "UTC" ELSE tz.name,
                   city |-> FirstSegment(geo.address)],
          geoCalls |-> 1, tzCalls |-> 1, geo |-> "found", tzo |-> tz.kind]

\* Lines 72-75: the except clause swallows the exception; the default follows.
GeoUncaught(t) ==
    [raised |-> t.exc, ret |-> IF t.returned THEN t.ret ELSE IF t.exc THEN NoRecord
                                                        ELSE DefaultLocation,
     geoCalls |-> t.geoCalls, tzCalls |-> t.tzCalls, geo |-> t.geo, tzo |-> t.tzo]

GeoExcept(t) ==
    [raised |-> FALSE, ret |-> IF t.returned THEN t.ret ELSE DefaultLocation,
     geoCalls |-> t.geoCalls, tzCalls |-> t.tzCalls, geo |-> t.geo, tzo |-> t.tzo]

\* Lines 54-55: the key the fallback table is probed with.
TableKeyRaw(city_name) == city_name

TableKey(city_name) == clean_name(city_name)

\* Lines 46-75.
get_location_data_body(city_name, geo, tz) ==
    IF TableKey(city_name) \in FallbackKeys
    THEN LET data == FALLBACK_CITIES(TableKey(city_name))
         IN  [raised |-> FALSE,
              ret |-> [lat |-> data.lat, lng |-> data.lng, tz |-> data.tz,
                       city |-> Title(city_name)],
              geoCalls |-> 0, tzCalls |-> 0, geo |-> "notcalled", tzo |-> "notcalled"]
    ELSE GeoExcept(GeoTry(city_name, geo, tz))

(***************************************************************************)
(* @lru_cache(maxsize=100): the memoizing wrapper around the body.         *)
(***************************************************************************)
maxsize == 100

\* The cache key of a call: the argument itself.
KeyNormalized(city_name) == Strip(Lower(city_name))

KeyOf(city_name) == city_name

CacheKeys(c) == { c[i].key : i \in 1..Len(c) }
InCache(c, k) == \E i \in 1..Len(c) : c[i].key = k
CacheIndex(c, k) == CHOOSE i \in 1..Len(c) : c[i].key = k
CacheRec(c, k) == c[CacheIndex(c, k)].rec

Remove(c, i) == SubSeq(c, 1, i - 1) \o SubSeq(c, i + 1, Len(c))

\* A hit leaves the entry where it is (first in, first out).
CacheTouchFifo(c, k) == c

\* A hit moves the entry to the most recently used end.
CacheTouch(c, k) == Append(Remove(c, CacheIndex(c, k)), c[CacheIndex(c, k)])

\* A later caller's result replaces the entry stored meanwhile.
CacheStoreOverwrite(c, k, rec) ==
    IF InCache(c, k)
    THEN Append(Remove(c, CacheIndex(c, k)), [key |-> k, rec |-> rec])
    ELSE IF Len(c) >= maxsize THEN Append(Tail(c), [key |-> k, rec |-> rec])
    ELSE Append(c, [key |-> k, rec |-> rec])

\* Storing a computed result: a key another caller stored meanwhile is left
\* alone; a full cache drops its least recently used entry first.
CacheStore(c, k, rec) ==
    IF InCache(c, k) THEN c
    ELSE IF Len(c) >= maxsize THEN Append(Tail(c), [key |-> k, rec |-> rec])
    ELSE Append(c, [key |-> k, rec |-> rec])

\* One whole sequential call get_location_data(city_name).
get_location_data(c, city_name, geo, tz) ==
    LET k == KeyOf(city_name) IN
    IF InCache(c, k)
    THEN [cache |-> CacheTouch(c, k), hit |-> TRUE, raised |-> FALSE,
          ret |-> CacheRec(c, k), geoCalls |-> 0, tzCalls |-> 0,
          geo |-> "notcalled", tzo |-> "notcalled"]
    ELSE LET b == get_location_data_body(city_name, geo, tz)
         IN  [cache |-> IF b.raised THEN c ELSE CacheStore(c, k, b.ret),
              hit |-> FALSE, raised |-> b.raised, ret |-> b.ret,
              geoCalls |-> b.geoCalls, tzCalls |-> b.tzCalls,
              geo |-> b.geo, tzo |-> b.tzo]

\* What the providers do during one call: nothing is drawn for a provider the
\* call does not reach.
BodyOffers(city_name) ==
    IF TableKey(city_name) \in FallbackKeys
    THEN {<<GeoNotCalled, TzNotCalled>>}
    ELSE { <<g, TzNotCalled>> : g \in {x \in GeoOutcomes : x.kind \in {"raise", "none"}} }
         \cup ({x \in GeoOutcomes : x.kind \notin {"raise", "none"}} \X TzOutcomes)

Offers(c, city_name) ==
    IF InCache(c, KeyOf(city_name)) THEN {<<GeoNotCalled, TzNotCalled>>}
    ELSE BodyOffers(city_name)

(***************************************************************************)
(* The starting cache: NumFillers earlier lookups of distinct unknown      *)
(* cities for which the geocoder returned nothing.                         *)
(***************************************************************************)
DigitCh == <<"0","1","2","3","4","5","6","7","8","9">>
FillerName(i) ==
    <<"Q", DigitCh[((i \div 100) % 10) + 1], DigitCh[((i \div 10) % 10) + 1],
      DigitCh[(i % 10) + 1]>>

\* After lookups of fillers 1..NumFillers the cache holds the last maxsize of them.
FirstKept == IF NumFillers > maxsize THEN NumFillers - maxsize + 1 ELSE 1
InitCache ==
    [i \in 1..(NumFillers - FirstKept + 1) |->
        [key |-> KeyOf(FillerName(FirstKept + i - 1)), rec |-> DefaultLocation]]

NoCall == [called |-> FALSE, city |-> <<>>, hit |-> FALSE, raised |-> FALSE,
           ret |-> NoRecord, geoCalls |-> 0, tzCalls |-> 0,
           geo |-> "notcalled", tzo |-> "notcalled"]

InitRest ==
    /\ llmAvailable = FALSE
    /\ req = <<>>
    /\ resp = <<>>
    /\ thr = <<>>
    /\ geoCount = <<>>
    /\ scan = <<>>

(***************************************************************************)
(* The section-parsing loop of generate_chart (lines 147-169).  A line is  *)
(* a tuple of tokens; the string it stands for is their concatenation.     *)
(* "SECTION_", ":" and " " are tokens of their own, so substring tests,    *)
(* replace() and strip() act on whole tokens.                              *)
(***************************************************************************)
DefaultResults ==
    [personality |-> <<>>, love |-> <<>>, career |-> <<>>, future |-> <<>>,
     life |-> <<>>, number |-> <<"7">>, color |-> <<"Gold">>]

Marker(name) == <<"SECTION_", name, ":">>

\* needle in hay
Contains(hay, needle) ==
    \E i \in 0..(Len(hay) - Len(needle)) :
        \A j \in 1..Len(needle) : hay[i + j] = needle[j]

\* line.strip()
StripLine(line) == Strip(line)

\* Lines 156-162: the if/elif chain; "None" when no marker is in the line.
MarkerSection(line) ==
    IF Contains(line, Marker("PERSONALITY")) THEN "personality"
    ELSE IF Contains(line, Marker("LOVE")) THEN "love"
    ELSE IF Contains(line, Marker("CAREER")) THEN "career"
    ELSE IF Contains(line, Marker("FUTURE")) THEN "future"
    ELSE IF Contains(line, Marker("LIFE_PATH")) THEN "life"
    ELSE IF Contains(line, Marker("LUCKY_NUMBER")) THEN "number"
    ELSE IF Contains(line, Marker("LUCKY_COLOR")) THEN "color"
    ELSE "None"

\* s.replace(tok, "")
RECURSIVE Without(_, _)
Without(s, tok) ==
    IF s = <<>> THEN <<>>
    ELSE IF Head(s) = tok THEN Without(Tail(s), tok)
    ELSE <<Head(s)>> \o Without(Tail(s), tok)

\* Line 165.
CleanLine(line) == Without(Without(line, "SECTION_"), ":")

\* Every section accumulates.
StoreLineAppend(results, section, clean_line) ==
    [results EXCEPT ![section] = @ \o clean_line \o <<" ">>]

\* Lines 166-169.
StoreLine(results, section, clean_line) ==
    IF section \in {"number", "color"}
    THEN [results EXCEPT ![section] = clean_line]
    ELSE [results EXCEPT ![section] = @ \o clean_line \o <<" ">>]

\* A marker line moves the cursor and is then stored as content too.
ScanLineFallThrough(st, rawline) ==
    LET line == StripLine(rawline)
        cur == IF MarkerSection(line) # "None" THEN MarkerSection(line)
               ELSE st.current_section
    IN  IF cur # "None" /\ line # <<>>
        THEN [current_section |-> cur, results |-> StoreLine(st.results, cur, CleanLine(line))]
        ELSE [current_section |-> cur, results |-> st.results]

\* Lines 155-169: one iteration of the loop.
ScanLine(st, rawline) ==
    LET line == StripLine(rawline) IN
    IF MarkerSection(line) # "None"
    THEN [current_section |-> MarkerSection(line), results |-> st.results]
    ELSE IF st.current_section # "None" /\ line # <<>>
    THEN [current_section |-> st.current_section,
          results |-> StoreLine(st.results, st.current_section, CleanLine(line))]
    ELSE st

\* analysis.split('\n')
RECURSIVE SplitLines(_)
SplitLines(text) ==
    IF \A i \in 1..Len(text) : text[i] # "\n" THEN <<text>>
    ELSE LET n == CHOOSE i \in 1..Len(text) :
                      text[i] = "\n" /\ \A j \in 1..(i - 1) : text[j] # "\n"
         IN  <<SubSeq(text, 1, n - 1)>> \o SplitLines(SubSeq(text, n + 1, Len(text)))

RECURSIVE ScanAll(_, _)
ScanAll(st, lines) ==
    IF lines = <<>> THEN st ELSE ScanAll(ScanLine(st, Head(lines)), Tail(lines))

\* Lines 147-169: results for what call_llm returned (a token tuple; <<>> is "").
ParseSections(hasText, text) ==
    IF hasText /\ text # <<>>
    THEN ScanAll([current_section |-> "None", results |-> DefaultResults],
                 SplitLines(text)).results
    ELSE DefaultResults

(***************************************************************************)
(* SpecScan: the loop, one iteration per step, over any lines.             *)
(***************************************************************************)
ScanLines ==
    { Marker("PERSONALITY"), Marker("LOVE"), Marker("CAREER"), Marker("FUTURE"),
      Marker("LIFE_PATH"), Marker("LUCKY_NUMBER"), Marker("LUCKY_COLOR"),
      <<"my", " ", "SECTION_", "LOVE", ":", " ", "answer">>,
      <<" ", "SECTION_", "LUCKY_NUMBER", ":", " ", "9">>,
      <<"SECTION_", "LUCKY_COLOR", ":", "SECTION_", "CAREER", ":">>,
      <<>>, <<" ", " ">>,
      <<"Hello", " ", "world.">>, <<" ", "9", " ">>, <<"Blue">>,
      <<":">>, <<"SECTION_", "LOVE">>, <<"re", ":", " ", "SECTION_", "x">> }

InitScan ==
    /\ scan = [current_section |-> "None", results |-> DefaultResults,
               line |-> <<>>, n |-> 0]
    /\ cache = <<>>
    /\ calls = <<>>
    /\ loc = NoCall
    /\ llmAvailable = TRUE
    /\ req = <<>>
    /\ resp = <<>>
    /\ thr = <<>>
    /\ geoCount = <<>>

ScanStep(rawline) ==
    /\ scan.n < MaxLines
    /\ LET st == ScanLine([current_section |-> scan.current_section,
                           results |-> scan.results], rawline)
       IN  scan' = [current_section |-> st.current_section, results |-> st.results,
                    line |-> rawline, n |-> scan.n + 1]
    /\ UNCHANGED <<cache, calls, loc, llmAvailable, req, resp, thr, geoCount>>

NextScan == \E rawline \in ScanLines : ScanStep(rawline)

SpecScan == InitScan /\ [][NextScan]_vars

Narrative == {"personality", "love", "career", "future", "life"}
Sections == Narrative \cup {"number", "color"}
MarkerNames ==
    {"PERSONALITY", "LOVE", "CAREER", "FUTURE", "LIFE_PATH", "LUCKY_NUMBER", "LUCKY_COLOR"}
SectionOfName(name) ==
    CASE name = "PERSONALITY" -> "personality" [] name = "LOVE" -> "love"
      [] name = "CAREER" -> "career" [] name = "FUTURE" -> "future"
      [] name = "LIFE_PATH" -> "life" [] name = "LUCKY_NUMBER" -> "number"
      [] name = "LUCKY_COLOR" -> "color"
HasMarker(line) == \E name \in MarkerNames : Contains(line, <<"SECTION_", name, ":">>)
Trimmed(line) == Strip(line)
Cleaned(line) == SelectSeq(Trimmed(line), LAMBDA t : t # "SECTION_" /\ t # ":")

\* C4: a non-empty non-marker line seen with the cursor on number or color
\* overwrites that field with the cleaned line; seen with the cursor on a
\* narrative section it is appended as the cleaned line plus one space; no
\* other field changes, and moving the cursor to a section keeps what that
\* section had accumulated.
C4_OverwriteOrAppend ==
    [][scan'.n = scan.n + 1 =>
        LET cur == scan.current_section
            line == scan'.line
        IN
        /\ (~HasMarker(line) /\ Trimmed(line) # <<>> /\ cur \in {"number", "color"}) =>
              /\ scan'.results[cur] = Cleaned(line)
              /\ \A f \in Sections \ {cur} : scan'.results[f] = scan.results[f]
              /\ scan'.current_section = cur
        /\ (~HasMarker(line) /\ Trimmed(line) # <<>> /\ cur \in Narrative) =>
              /\ scan'.results[cur] = scan.results[cur] \o Cleaned(line) \o <<" ">>
              /\ \A f \in Sections \ {cur} : scan'.results[f] = scan.results[f]
              /\ scan'.current_section = cur
        /\ HasMarker(line) =>
              scan'.results[scan'.current_section] = scan.results[scan'.current_section]
    ]_vars

\* Two lines were appended to personality, in the order they were seen.
C4_Witness ==
    /\ scan.n = 3
    /\ scan.current_section = "personality"
    /\ scan.line = <<"Blue">>
    /\ scan.results.personality = <<"Hello", " ", "world.", " ", "Blue", " ">>

\* C8: a line containing a marker anywhere only moves the cursor to the
\* section of a marker it contains; marker lines, empty lines and lines seen
\* before the first marker leave all seven fields unchanged.
C8_MarkerLinesNotStored ==
    [][scan'.n = scan.n + 1 =>
        LET line == scan'.line IN
        /\ HasMarker(line) =>
              /\ scan'.results = scan.results
              /\ \E name \in MarkerNames :
                    /\ Contains(line, <<"SECTION_", name, ":">>)
                    /\ scan'.current_section = SectionOfName(name)
        /\ (~HasMarker(line) /\ (Trimmed(line) = <<>> \/ scan.current_section = "None")) =>
              /\ scan'.results = scan.results
              /\ scan'.current_section = scan.current_section
    ]_vars

\* A marker line with text around the marker was scanned after content had
\* been stored, and nothing of it was stored.
C8_Witness ==
    /\ scan.n = 3
    /\ scan.line = <<"my", " ", "SECTION_", "LOVE", ":", " ", "answer">>
    /\ scan.current_section = "love"
    /\ scan.results.personality # <<>>
    /\ scan.results.love = <<>>

(***************************************************************************)
(* call_llm (lines 27-43) and generate_chart (lines 82-183).               *)
(***************************************************************************)
\* What the completion endpoint can do with one create() call: raise, answer
\* with no content, with the empty string, or with text.
Text1 ==
    <<"SECTION_", "PERSONALITY", ":", "\n", "Hello", " ", "world.", "\n",
      "SECTION_", "LUCKY_NUMBER", ":", "\n", "9", "\n", "9", "\n",
      "SECTION_", "LUCKY_COLOR", ":", "\n", "Blue">>
Text2 ==
    <<"Dear", " ", "reader", "\n", "my", " ", "SECTION_", "LOVE", ":", " ", "answer", "\n",
      " ", "re", ":", " ", "Venus", " ", "\n", "\n", "SECTION_", "x">>
LlmNotCalled == [kind |-> "notcalled", text |-> <<>>]
LlmOutcomes ==
    { [kind |-> "raise", text |-> <<>>],
      [kind |-> "nocontent", text |-> <<>>],
      [kind |-> "text", text |-> <<>>],
      [kind |-> "text", text |-> Text1],
      [kind |-> "text", text |-> Text2] }

\* The except clause is missing: the exception reaches the caller.
call_llm_uncaught(available, out) ==
    IF ~available THEN [raised |-> FALSE, hasText |-> FALSE, text |-> <<>>, llmCalls |-> 0]
    ELSE IF out.kind = "raise"
    THEN [raised |-> TRUE, hasText |-> FALSE, text |-> <<>>, llmCalls |-> 1]
    ELSE [raised |-> FALSE, hasText |-> out.kind = "text", text |-> out.text, llmCalls |-> 1]

\* Lines 27-43.  hasText is FALSE when the function returns None.
call_llm(available, out) ==
    IF ~available THEN [raised |-> FALSE, hasText |-> FALSE, text |-> <<>>, llmCalls |-> 0]
    ELSE IF out.kind = "raise"
    THEN [raised |-> FALSE, hasText |-> FALSE, text |-> <<>>, llmCalls |-> 1]
    ELSE [raised |-> FALSE, hasText |-> out.kind = "text", text |-> out.text, llmCalls |-> 1]

DateFields == <<"year", "month", "day", "hour", "minute">>

\* Lines 90-94: int(data[f]) for each field in order; the first that fails.
FirstBadField(rq) ==
    IF \E i \in 1..Len(DateFields) : rq.fields[DateFields[i]] # "int"
    THEN DateFields[CHOOSE i \in 1..Len(DateFields) :
                        /\ rq.fields[DateFields[i]] # "int"
                        /\ \A j \in 1..(i - 1) : rq.fields[DateFields[j]] = "int"]
    ELSE "none"

\* Line 85: data.get('city', 'New York')
CityArg(rq) ==
    IF rq.cityKind = "absent" THEN <<"N","e","w"," ","Y","o","r","k">> ELSE rq.city

NoLookup(c) ==
    [cache |-> c, hit |-> FALSE, raised |-> FALSE, ret |-> NoRecord,
     geoCalls |-> 0, tzCalls |-> 0, geo |-> "notcalled", tzo |-> "notcalled"]

\* The location is resolved only once the date fields have been read.
ResolveAfterFields(c, rq) ==
    IF FirstBadField(rq) # "none" THEN NoLookup(c)
    ELSE get_location_data(c, CityArg(rq), rq.geo, rq.tz)

\* Line 85: the location is resolved first.
ResolveLocation(c, rq) == get_location_data(c, CityArg(rq), rq.geo, rq.tz)

\* The status code is left out of the except clause's return.
ErrorResponseNoStatus(msg) ==
    [status |-> 200, body |-> [success |-> FALSE, error |-> msg]]

\* Lines 181-183.
ErrorResponse(msg) ==
    [status |-> 500, body |-> [success |-> FALSE, error |-> msg]]

\* Lines 171-179.
SuccessResponse(signs, results) ==
    [status |-> 200,
     body |-> [success |-> TRUE,
               data |-> [sun |-> signs.sun, moon |-> signs.moon,
                         rising |-> signs.rising, analysis |-> results]]]

Outcome(c, response, geoCalls, tzCalls, llmCalls) ==
    [cache |-> c, resp |-> response, geoCalls |-> geoCalls, tzCalls |-> tzCalls,
     llmCalls |-> llmCalls]

\* Lines 82-183: one whole request.
generate_chart(c, available, rq) ==
    IF rq.body = "unreadable"
    THEN Outcome(c, ErrorResponse("request.json raised"), 0, 0, 0)
    ELSE IF rq.body = "notobject"
    THEN Outcome(c, ErrorResponse("object has no attribute 'get'"), 0, 0, 0)
    ELSE IF rq.cityKind = "nonstring"
    THEN Outcome(c, ErrorResponse("city is not a string"), 0, 0, 0)
    ELSE
    LET l == ResolveLocation(c, rq) IN
    IF FirstBadField(rq) # "none"
    THEN Outcome(l.cache,
                 ErrorResponse(IF rq.fields[FirstBadField(rq)] = "missing"
                               THEN "KeyError" ELSE "ValueError"),
                 l.geoCalls, l.tzCalls, 0)
    ELSE IF rq.engine # "ok"
    THEN Outcome(l.cache, ErrorResponse("AstrologicalSubject raised"),
                 l.geoCalls, l.tzCalls, 0)
    ELSE
    LET a == call_llm(available, rq.llm) IN
    IF a.raised
    THEN Outcome(l.cache, ErrorResponse("completion raised"),
                 l.geoCalls, l.tzCalls, a.llmCalls)
    ELSE Outcome(l.cache, SuccessResponse(rq.signs, ParseSections(a.hasText, a.text)),
                 l.geoCalls, l.tzCalls, a.llmCalls)

(***************************************************************************)
(* Spec: sequential POST /api/chart requests, starting with an empty cache.*)
(***************************************************************************)
ChartCities == { <<"d","e","l","h","i">>, <<"p","a","r","i","s">> }

AllInt == [f \in {"year", "month", "day", "hour", "minute"} |-> "int"]
BadFieldChoices ==
    { [AllInt EXCEPT ![f] = k] :
        f \in {"year", "month", "day", "hour", "minute"}, k \in {"missing", "notint"} }

SignChoices ==
    { [sun |-> "Leo", moon |-> "Pis", rising |-> "Lib"],
      [sun |-> "Ari", moon |-> "Tau", rising |-> "Gem"] }
NoSigns == [sun |-> "", moon |-> "", rising |-> ""]

Request(body, cityKind, city, fields, env, engine, signs, llm) ==
    [body |-> body, cityKind |-> cityKind, city |-> city, fields |-> fields,
     geo |-> env[1], tz |-> env[2], engine |-> engine, signs |-> signs, llm |-> llm]

NoEnv == <<GeoNotCalled, TzNotCalled>>

\* The requests offered in cache state c.  Nothing is drawn for a part of the
\* request or a collaborator that the handler cannot reach any more.
Requests(c, available) ==
    LET located ==
            { <<"string", city, env>> :
                city \in ChartCities,
                env \in (GeoOutcomes \cup {GeoNotCalled}) \X (TzOutcomes \cup {TzNotCalled}) }
            \cup { <<"absent", <<>>, NoEnv>> }
        reach == { x \in located : x[1] = "absent" \/ x[3] \in Offers(c, x[2]) }
        llms == IF available THEN LlmOutcomes ELSE {LlmNotCalled}
    IN
    { Request(b, "absent", <<>>, AllInt, NoEnv, "ok", NoSigns, LlmNotCalled) :
        b \in {"unreadable", "notobject"} }
    \cup { Request("object", "nonstring", <<>>, AllInt, NoEnv, "ok", NoSigns, LlmNotCalled) }
    \cup { Request("object", x[1], x[2], f, x[3], "ok", NoSigns, LlmNotCalled) :
            x \in reach, f \in BadFieldChoices }
    \cup { Request("object", x[1], x[2], AllInt, x[3], e, NoSigns, LlmNotCalled) :
            x \in reach, e \in {"raise_user", "raise_now"} }
    \cup { Request("object", x[1], x[2], AllInt, x[3], "ok", sg, l) :
            x \in reach, sg \in SignChoices, l \in llms }

NoResponse == [status |-> 0, body |-> [success |-> FALSE, error |-> ""]]

NoRequest ==
    [n |-> 0, rq |-> Request("unreadable", "absent", <<>>, AllInt, NoEnv, "ok", NoSigns,
                             LlmNotCalled),
     geoCalls |-> 0, tzCalls |-> 0, llmCalls |-> 0]

Init ==
    /\ cache = <<>>
    /\ llmAvailable \in BOOLEAN
    /\ req = NoRequest
    /\ resp = NoResponse
    /\ calls = <<>>
    /\ loc = NoCall
    /\ thr = <<>>
    /\ geoCount = <<>>
    /\ scan = <<>>

GenerateChart(rq) ==
    /\ req.n < MaxRequests
    /\ LET o == generate_chart(cache, llmAvailable, rq) IN
        /\ cache' = o.cache
        /\ resp' = o.resp
        /\ req' = [n |-> req.n + 1, rq |-> rq, geoCalls |-> o.geoCalls,
                   tzCalls |-> o.tzCalls, llmCalls |-> o.llmCalls]
    /\ UNCHANGED <<llmAvailable, calls, loc, thr, geoCount, scan>>

Next == \E rq \in Requests(cache, llmAvailable) : GenerateChart(rq)

Spec == Init /\ [][Next]_vars

\* The request gets as far as call_llm: an object body, a usable city, all five
\* date fields integers, and both chart computations succeed.
ReachesLlm(rq) ==
    /\ rq.body = "object"
    /\ rq.cityKind # "nonstring"
    /\ \A f \in DOMAIN rq.fields : rq.fields[f] = "int"
    /\ rq.engine = "ok"

\* C1: when call_llm returns no result (client unconfigured, or the completion
\* call raises), the request ends with HTTP 200, success=true and exactly the
\* default analysis.
C1_LlmFailureDefaults ==
    (/\ req.n > 0
     /\ ReachesLlm(req.rq)
     /\ (~llmAvailable \/ req.rq.llm.kind = "raise")) =>
        /\ resp.status = 200
        /\ resp.body.success = TRUE
        /\ resp.body.data.analysis =
              [personality |-> <<>>, love |-> <<>>, career |-> <<>>, future |-> <<>>,
               life |-> <<>>, number |-> <<"7">>, color |-> <<"Gold">>]

C1_Witness ==
    /\ req.n > 0
    /\ llmAvailable
    /\ req.rq.llm.kind = "raise"
    /\ req.llmCalls = 1
    /\ resp.status = 200

\* An exception is raised somewhere in generate_chart.
RaisesInHandler(rq) ==
    \/ rq.body # "object"
    \/ rq.cityKind = "nonstring"
    \/ \E f \in DOMAIN rq.fields : rq.fields[f] # "int"
    \/ rq.engine # "ok"

\* C2: any exception in generate_chart ends the request with HTTP 500 and a
\* body of exactly success=false plus an error message; no response carries
\* success=false together with data fields, nor success=true with status 500.
C2_FailureIsWhole ==
    req.n > 0 =>
        /\ RaisesInHandler(req.rq) =>
              /\ resp.status = 500
              /\ DOMAIN resp.body = {"success", "error"}
              /\ resp.body.success = FALSE
        /\ resp.body.success = FALSE =>
              DOMAIN resp.body \cap {"data", "sun", "moon", "rising", "analysis"} = {}
        /\ ~(resp.body.success = TRUE /\ resp.status = 500)
        /\ resp.status \in {200, 500}

C2_Witness ==
    /\ req.n > 0
    /\ req.rq.engine = "raise_now"
    /\ req.geoCalls = 1
    /\ resp.status = 500
    /\ resp.body.success = FALSE

\* The step is a request that fails on a date field.
BadDateRequest ==
    /\ req'.n = req.n + 1
    /\ req'.rq.body = "object"
    /\ req'.rq.cityKind # "nonstring"
    /\ \E f \in DOMAIN req'.rq.fields : req'.rq.fields[f] # "int"

\* C10 as stated: a request that fails on a missing or non-integer date field
\* calls no provider and leaves the location cache as it was.
C10_NoSideEffect ==
    [][BadDateRequest =>
        /\ resp'.status = 500
        /\ req'.geoCalls = 0 /\ req'.tzCalls = 0 /\ req'.llmCalls = 0
        /\ cache' = cache
    ]_vars

\* C10 amended: such a request calls no LLM provider, but its location lookup
\* has already run: afterwards the request's city ('New York' when absent) is
\* the most recently used cache entry, and the geocoder was called once
\* exactly when the city was neither cached nor in the fallback table.
C10_OnlyLocationEffect ==
    [][BadDateRequest =>
        LET city == IF req'.rq.cityKind = "absent"
                    THEN <<"N","e","w"," ","Y","o","r","k">> ELSE req'.rq.city
        IN
        /\ resp'.status = 500
        /\ req'.llmCalls = 0
        /\ Len(cache') > 0 /\ cache'[Len(cache')].key = city
        /\ req'.geoCalls =
              IF InCache(cache, city) \/ Strip(Lower(city)) \in FallbackKeys THEN 0 ELSE 1
        /\ req'.tzCalls <= req'.geoCalls
    ]_vars

\* A request with a bad date field has called the geocoder and been answered 500.
C10_Witness ==
    /\ req.n > 0
    /\ req.rq.fields["year"] = "missing"
    /\ req.geoCalls = 1
    /\ resp.status = 500
    /\ InCache(cache, <<"p","a","r","i","s">>)

(***************************************************************************)
(* SpecLoc: sequential calls of get_location_data.                         *)
(***************************************************************************)
LocCities ==
    { <<"d","e","l","h","i">>, <<"D","e","l","h","i"," ">>,
      <<"M","U","M","B","A","I">>,
      <<"b","a","n","g","a","l","o","r","e">>,
      <<" ","n","e","w"," ","y","o","r","k">>,
      <<"L","o","n","d","o","n">>,
      <<"p","a","r","i","s">>,
      FillerName(1), FillerName(2) }

InitLoc ==
    /\ cache = InitCache
    /\ calls = <<>>
    /\ loc = NoCall
    /\ InitRest

LocCall(city_name, geo, tz) ==
    /\ Len(calls) < MaxCalls
    /\ LET r == get_location_data(cache, city_name, geo, tz) IN
        /\ cache' = r.cache
        /\ loc' = [called |-> TRUE, city |-> city_name, hit |-> r.hit,
                   raised |-> r.raised, ret |-> r.ret,
                   geoCalls |-> r.geoCalls, tzCalls |-> r.tzCalls,
                   geo |-> r.geo, tzo |-> r.tzo]
    /\ calls' = Append(calls, city_name)
    /\ UNCHANGED <<llmAvailable, req, resp, thr, geoCount, scan>>

NextLoc == \E city_name \in LocCities :
              \E env \in Offers(cache, city_name) : LocCall(city_name, env[1], env[2])

SpecLoc == InitLoc /\ [][NextLoc]_vars

\* When a string was last passed to get_location_data: its last position in
\* the call history, or, for a filler not called since the start, its place in
\* the lookups that filled the starting cache (filler i was the i-th of them).
DigitVal(ch) == (CHOOSE d \in 1..10 : DigitCh[d] = ch) - 1
FillerIndex(k) == 100 * DigitVal(k[2]) + 10 * DigitVal(k[3]) + DigitVal(k[4])
LastUse(k) ==
    IF \E i \in 1..Len(calls) : calls[i] = k
    THEN CHOOSE i \in 1..Len(calls) : calls[i] = k /\ \A j \in (i + 1)..Len(calls) : calls[j] # k
    ELSE FillerIndex(k) - NumFillers - 1

CacheEntries(c) == { c[i] : i \in 1..Len(c) }

\* C3: a call with an exact input string that is still cached returns the
\* memoized record and calls no provider; a miss on a full cache evicts exactly
\* the least recently used key (a hit counts as a use); the cache never holds
\* more than 100 entries and the surviving entries keep their records.
C3_MemoizedLru ==
    [][Len(calls') = Len(calls) + 1 =>
        LET k == loc'.city
            old == CacheEntries(cache)
            new == CacheEntries(cache')
            gone == old \ new
        IN
        /\ InCache(cache, k) =>
              /\ loc'.hit
              /\ loc'.ret = CacheRec(cache, k)
              /\ loc'.geoCalls = 0 /\ loc'.tzCalls = 0
              /\ new = old
        /\ (~InCache(cache, k) /\ Len(cache) >= 100) =>
              /\ Cardinality(gone) = 1
              /\ \A v \in gone : \A e \in old : LastUse(v.key) <= LastUse(e.key)
              /\ new = (old \ gone) \cup {[key |-> k, rec |-> loc'.ret]}
        /\ (~InCache(cache, k) /\ Len(cache) < 100) =>
              new = old \cup {[key |-> k, rec |-> loc'.ret]}
        /\ Len(cache') <= 100
        /\ Cardinality(CacheKeys(cache')) = Len(cache')
    ]_vars

\* The oldest filler was hit, so the next eviction took the second oldest.
C3_Witness ==
    /\ loc.called /\ ~loc.hit
    /\ Len(cache) = 100
    /\ InCache(cache, FillerName(1))
    /\ ~InCache(cache, FillerName(2))

\* C5: a city whose lowercased, trimmed name is a key of the fallback table
\* gets that entry's latitude, longitude and timezone, and no provider is
\* called, on a miss and on a hit.
C5_FallbackNoNetwork ==
    (loc.called /\ Strip(Lower(loc.city)) \in FallbackKeys) =>
        LET e == FALLBACK_CITIES(Strip(Lower(loc.city))) IN
        /\ loc.ret.lat = e.lat /\ loc.ret.lng = e.lng /\ loc.ret.tz = e.tz
        /\ loc.geoCalls = 0 /\ loc.tzCalls = 0
        /\ ~loc.raised

C5_Witness ==
    /\ loc.called /\ ~loc.hit
    /\ loc.city = <<"D","e","l","h","i"," ">>
    /\ loc.ret.lat = 286139

\* C6: for a city outside the fallback table, when the geocoder raises or
\* returns nothing, or the timezone lookup raises, the call returns the New
\* York default record and raises nothing.
C6_DefaultOnFailure ==
    (/\ loc.called /\ ~loc.hit
     /\ Strip(Lower(loc.city)) \notin FallbackKeys
     /\ (loc.geo \in {"raise", "none"} \/ loc.tzo = "raise")) =>
        /\ ~loc.raised
        /\ loc.ret = [lat |-> 407128, lng |-> -740060, tz |-> "America/New_York",
                      city |-> <<"N","e","w"," ","Y","o","r","k">>]

C6_Witness ==
    /\ loc.called /\ loc.tzo = "raise" /\ loc.geo = "found"
    /\ loc.ret.tz = "America/New_York"

\* C7 as stated: a call whose lowercased, trimmed input equals that of a cached
\* key is a hit, returns that key's record and adds no entry.
C7_NormalizedKey ==
    [][(/\ Len(calls') = Len(calls) + 1
        /\ \E k \in CacheKeys(cache) : Strip(Lower(k)) = Strip(Lower(loc'.city))) =>
        /\ loc'.hit
        /\ CacheKeys(cache') = CacheKeys(cache)
        /\ \E k \in CacheKeys(cache) :
              /\ Strip(Lower(k)) = Strip(Lower(loc'.city))
              /\ loc'.ret = CacheRec(cache, k)
    ]_vars

\* C7 amended: the cache is keyed by the exact input string.  A call is a hit
\* exactly when that very string is cached; an input that differs from every
\* cached key, if only in letter case or surrounding whitespace, is a miss that
\* is stored under its own key and counts as a new distinct key.
C7_ExactKey ==
    [][Len(calls') = Len(calls) + 1 =>
        LET k == loc'.city IN
        /\ loc'.hit <=> InCache(cache, k)
        /\ InCache(cache, k) => loc'.ret = CacheRec(cache, k)
        /\ ~InCache(cache, k) =>
              /\ InCache(cache', k)
              /\ CacheRec(cache', k) = loc'.ret
              /\ Len(cache') = IF Len(cache) < 100 THEN Len(cache) + 1 ELSE 100
    ]_vars

\* Two entries whose keys differ only in case and whitespace sit side by side.
C7_Witness ==
    /\ loc.called /\ ~loc.hit
    /\ InCache(cache, <<"d","e","l","h","i">>)
    /\ InCache(cache, <<"D","e","l","h","i"," ">>)

(***************************************************************************)
(* SpecConc: requests served on several threads call get_location_data at  *)
(* the same time.  The wrapper holds its lock for the lookup and for the   *)
(* store, not while the body runs, so a caller that missed computes on its *)
(* own and stores afterwards.                                              *)
(***************************************************************************)
Threads == 1..NumThreads

ConcCities == { <<"p","a","r","i","s">>, <<"P","a","r","i","s"," ">>, <<"d","e","l","h","i">> }

Idle == [pc |-> "idle", city |-> <<>>, hit |-> FALSE, ret |-> NoRecord]

InitConc ==
    /\ cache = <<>>
    /\ thr = [t \in Threads |-> Idle]
    /\ geoCount = [city \in ConcCities |-> 0]
    /\ calls = <<>>
    /\ loc = NoCall
    /\ llmAvailable = FALSE
    /\ req = <<>>
    /\ resp = <<>>
    /\ scan = <<>>

\* The wrapper looks the key up: a hit returns the stored record at once.
Lookup(t, city_name) ==
    /\ thr[t].pc = "idle"
    /\ IF InCache(cache, KeyOf(city_name))
       THEN /\ cache' = CacheTouch(cache, KeyOf(city_name))
            /\ thr' = [thr EXCEPT ![t] = [pc |-> "done", city |-> city_name, hit |-> TRUE,
                                          ret |-> CacheRec(cache, KeyOf(city_name))]]
       ELSE /\ cache' = cache
            /\ thr' = [thr EXCEPT ![t] = [pc |-> "computing", city |-> city_name,
                                          hit |-> FALSE, ret |-> NoRecord]]
    /\ UNCHANGED <<geoCount, calls, loc, llmAvailable, req, resp, scan>>

\* The body runs outside the lock.
Compute(t, geo, tz) ==
    /\ thr[t].pc = "computing"
    /\ LET b == get_location_data_body(thr[t].city, geo, tz) IN
        /\ thr' = [thr EXCEPT ![t].pc = "computed", ![t].ret = b.ret]
        /\ geoCount' = [geoCount EXCEPT ![thr[t].city] = @ + b.geoCalls]
    /\ UNCHANGED <<cache, calls, loc, llmAvailable, req, resp, scan>>

\* The wrapper stores the result and returns it to its caller.
Store(t) ==
    /\ thr[t].pc = "computed"
    /\ cache' = CacheStore(cache, KeyOf(thr[t].city), thr[t].ret)
    /\ thr' = [thr EXCEPT ![t].pc = "done"]
    /\ UNCHANGED <<geoCount, calls, loc, llmAvailable, req, resp, scan>>

NextConc ==
    \E t \in Threads :
        \/ \E city_name \in ConcCities : Lookup(t, city_name)
        \/ \E env \in BodyOffers(thr[t].city) : Compute(t, env[1], env[2])
        \/ Store(t)

SpecConc == InitConc /\ [][NextConc]_vars

NonTable(city) == Strip(Lower(city)) \notin FallbackKeys

\* C9 as stated: for a city outside the fallback table the geocoder is invoked
\* at most once, and all callers that have returned hold the same record, the
\* one stored in the cache.
C9_ComputedOnce ==
    \A city \in ConcCities :
        NonTable(city) =>
            /\ geoCount[city] <= 1
            /\ \A t \in Threads :
                  (thr[t].pc = "done" /\ thr[t].city = city) =>
                      /\ InCache(cache, city)
                      /\ thr[t].ret = CacheRec(cache, city)

Missed(city) ==
    { t \in Threads : thr[t].city = city /\ thr[t].pc \in {"computed", "done"} /\ ~thr[t].hit }

\* C9 amended: every caller that finds the key uncached invokes the geocoder
\* itself, once, and receives the record its own invocation produced; the
\* cache never holds two entries for the key: the first such caller to store
\* inserts its record, a later one that finds the key present leaves the entry
\* as it is, and a lookup that finds the entry returns it without invoking the
\* geocoder.
C9_OncePerMissingCaller ==
    [][\A t \in Threads :
        /\ (thr[t].pc = "idle" /\ thr'[t].pc = "done") =>
              /\ InCache(cache, thr'[t].city)
              /\ thr'[t].ret = CacheRec(cache, thr'[t].city)
              /\ geoCount' = geoCount
        /\ (thr[t].pc = "idle" /\ thr'[t].pc = "computing") =>
              ~InCache(cache, thr'[t].city)
        /\ (thr[t].pc = "computing" /\ thr'[t].pc = "computed") =>
              geoCount'[thr[t].city] = geoCount[thr[t].city] +
                                        (IF NonTable(thr[t].city) THEN 1 ELSE 0)
        /\ (thr[t].pc = "computed" /\ thr'[t].pc = "done") =>
              /\ thr'[t].ret = thr[t].ret
              /\ InCache(cache, thr[t].city) => cache' = cache
              /\ ~InCache(cache, thr[t].city) =>
                    /\ InCache(cache', thr[t].city)
                    /\ CacheRec(cache', thr[t].city) = thr[t].ret
        /\ \A city \in ConcCities :
              /\ NonTable(city) => geoCount'[city] = Cardinality(Missed(city)')
              /\ Cardinality({i \in 1..Len(cache') : cache'[i].key = city}) <= 1
    ]_vars

\* Two callers missed the same city, each invoked the geocoder and each
\* returned a different record; the cache holds the first one's.
C9_Witness ==
    /\ geoCount[<<"p","a","r","i","s">>] = 2
    /\ \A t \in {1, 2} : thr[t].pc = "done" /\ thr[t].city = <<"p","a","r","i","s">>
    /\ thr[1].ret # thr[2].ret
    /\ CacheRec(cache, <<"p","a","r","i","s">>) = thr[1].ret

====
